---- MODULE Spec2Model ----
(***************************************************************************)
(* Model of go-toolkits: the transaction helper of package sql            *)
(* (DataBase.Transaction / DataBase.TransactionCtx) and the logger        *)
(* construction of package log (New / Init and the process-wide logger).  *)
(***************************************************************************)
EXTENDS Integers, Sequences, FiniteSets, TLC

(* ----------------------------- bounds --------------------------------- *)
\* largest configured TransTimeout, in ticks (a negative one is also tried)
MaxTimeout == 2
\* largest deadline a caller's context carries, in ticks after the call
MaxDeadline == 2
\* how long a unit of work is followed while it runs, in ticks
MaxElapsed == 3

Timeouts == (0 - 1)..MaxTimeout
UowErrors == {"e1", "e2"}
NilValue == "nil"
PanicValues == {NilValue, "boom"}

(* ----------------------------- errors --------------------------------- *)
\* the nil error
NoError == [kind |-> "nil", val |-> "", stack |-> FALSE]
\* an error returned by the unit of work
UowError(e) == [kind |-> "uow", val |-> e, stack |-> FALSE]
\* the Error field of the *gorm.DB returned by tx.Commit()
CommitError(e) == [kind |-> "commit", val |-> e, stack |-> FALSE]
\* an error returned by tx.Rollback() (the code never reads it)
RollbackError(e) == [kind |-> "rollback", val |-> e, stack |-> FALSE]
\* errors.Errorf("panic[%s] \nret[%v]", stack, ret)
PanicError(r) == [kind |-> "panic", val |-> r, stack |-> TRUE]

(* ---------------------------- contexts -------------------------------- *)
\* context.Background(): no deadline, never done
Background == [hasDeadline |-> FALSE, deadline |-> 0, done |-> FALSE]
\* a caller's context with a deadline d ticks after the call
WithDeadline(d) == [hasDeadline |-> TRUE, deadline |-> d, done |-> d <= 0]
\* the absent derived context
NoCtxt == [exists |-> FALSE, timeout |-> 0, done |-> FALSE]
\* context.WithTimeout(ctx, t) of a context without deadline
WithTimeout(t) == [exists |-> TRUE, timeout |-> t, done |-> t <= 0]

VARIABLES
    TransTimeout,   \* db.cfg.TransTimeout
    pc,             \* position of the call: idle, running (inside f), done
    api,            \* entry point of the call
    ctx,            \* the caller's context
    ctxt,           \* the context derived with the timeout, if any
    txCtx,          \* context the transaction was begun under
    txState,        \* none (begin failed), open, committed, rolledback
    commits,        \* tx.Commit() calls issued by the call
    rollbacks,      \* tx.Rollback() calls issued by the call
    fResult,        \* outcome of the unit of work
    ret,            \* err returned by the call
    propagated,     \* the panic left TransactionCtx
    elapsed,        \* ticks since the call started
    logger,         \* package log: var logger
    sugger,         \* package log: var sugger
    lastNew,        \* the latest call of New: config, environment, result
    initErr         \* what the latest Init returned

txvars == <<pc, api, ctx, ctxt, txCtx, txState, commits, rollbacks,
            fResult, ret, propagated, elapsed>>
logvars == <<logger, sugger, lastNew, initErr>>
vars == <<TransTimeout, pc, api, ctx, ctxt, txCtx, txState, commits,
          rollbacks, fResult, ret, propagated, elapsed,
          logger, sugger, lastNew, initErr>>

NoResult == [kind |-> "none", val |-> ""]

(* ===================== package sql: TransactionCtx ==================== *)


\* a slip in line 124: the caller's deadline is not looked at
Derive_IgnoresDeadline(c, t) == t # 0

\* line 124: _, ok := ctx.Deadline(); db.cfg.TransTimeout != 0 && !ok
Derive(c, t) == t # 0 /\ ~c.hasDeadline


\* a slip in line 127: the transaction is begun under ctx, not ctxt
BeginContext_AlwaysCaller(derive) == "caller"

\* lines 125-130: the context handed to BeginTx
BeginContext(derive) == IF derive THEN "derived" ELSE "caller"

\* whether the context the transaction was begun under is done
TxCtxDone == IF txCtx = "derived" THEN ctxt.done ELSE ctx.done

\* line 126: defer cancel() of the derived context
Cancel(d) == IF d.exists THEN [d EXCEPT !.done = TRUE] ELSE d

\* the passing of n ticks for a caller's context: its deadline may expire
ExpireCtx(c, n) == IF c.hasDeadline /\ c.deadline <= n
                   THEN [c EXCEPT !.done = TRUE] ELSE c

\* the passing of n ticks for the derived context: its timeout may expire
ExpireCtxt(d, n) == IF d.exists /\ d.timeout <= n
                    THEN [d EXCEPT !.done = TRUE] ELSE d


\* a slip in lines 142-143: the error of a failed rollback replaces e
ErrorPath_ReturnsRollbackError(e, rbOK) ==
    [txState    |-> IF txState = "open" THEN "rolledback" ELSE txState,
     commits    |-> commits,
     rollbacks  |-> rollbacks + 1,
     ret        |-> IF rbOK THEN UowError(e) ELSE RollbackError("driver"),
     propagated |-> FALSE]

\* lines 141-144: f returned the error e; rbOK is whether the rollback
\* itself succeeds, which the code never looks at
ErrorPath(e, rbOK) ==
    [txState    |-> IF txState = "open" THEN "rolledback" ELSE txState,
     commits    |-> commits,
     rollbacks  |-> rollbacks + 1,
     ret        |-> UowError(e),
     propagated |-> FALSE]

\* what tx.Commit().Error is: nil only for an open transaction whose
\* context is live and whose driver commit succeeds (ok)
CommitResult(ok) ==
    IF txState = "none" THEN CommitError("invalid transaction")
    ELSE IF TxCtxDone THEN CommitError("context done")
    ELSE IF txState # "open" THEN CommitError("transaction done")
    ELSE IF ok THEN NoError ELSE CommitError("driver")


\* a slip in lines 146-147: a rollback is issued after the commit as well
CommitPath_ThenRollback(ok) ==
    [txState    |-> IF txState = "open" /\ ~TxCtxDone
                    THEN (IF ok THEN "committed" ELSE "rolledback")
                    ELSE txState,
     commits    |-> commits + 1,
     rollbacks  |-> rollbacks + 1,
     ret        |-> CommitResult(ok),
     propagated |-> FALSE]

\* a slip in line 146: the error of the commit is dropped
CommitPath_DropsError(ok) ==
    [txState    |-> IF txState = "open" /\ ~TxCtxDone
                    THEN (IF ok THEN "committed" ELSE "rolledback")
                    ELSE txState,
     commits    |-> commits + 1,
     rollbacks  |-> rollbacks,
     ret        |-> NoError,
     propagated |-> FALSE]

\* lines 146-147: f returned nil; a commit that fails closes the
\* transaction without committing it
CommitPath(ok) ==
    [txState    |-> IF txState = "open" /\ ~TxCtxDone
                    THEN (IF ok THEN "committed" ELSE "rolledback")
                    ELSE txState,
     commits    |-> commits + 1,
     rollbacks  |-> rollbacks,
     ret        |-> CommitResult(ok),
     propagated |-> FALSE]

\* what recover() yields for panic(v): with panicnil (Go before 1.21, or
\* GODEBUG=panicnil=1) panic(nil) is recovered as nil, otherwise as a
\* *runtime.PanicNilError
Recovered(v, panicnil) ==
    IF v = NilValue THEN (IF panicnil THEN NilValue ELSE "PanicNilError")
    ELSE v


\* a change of lines 133-137: the recovery path rolls the transaction back
RecoverPath_RollsBack(v, panicnil) ==
    [txState    |-> IF txState = "open" THEN "rolledback" ELSE txState,
     commits    |-> commits,
     rollbacks  |-> rollbacks + 1,
     ret        |-> IF Recovered(v, panicnil) # NilValue
                    THEN PanicError(Recovered(v, panicnil)) ELSE NoError,
     propagated |-> FALSE]

\* lines 132-138: the deferred recover; err keeps its zero value when the
\* recovered value is nil
RecoverPath(v, panicnil) ==
    [txState    |-> txState,
     commits    |-> commits,
     rollbacks  |-> rollbacks,
     ret        |-> IF Recovered(v, panicnil) # NilValue
                    THEN PanicError(Recovered(v, panicnil)) ELSE NoError,
     propagated |-> FALSE]

\* lines 123-138: derive the context, begin the transaction, register the
\* defers, and enter f.  beginOK is whether the driver can begin.
Enter(a, c, beginOK) ==
    /\ pc \in {"idle", "done"}
    /\ api' = a
    /\ ctx' = c
    /\ ctxt' = IF Derive(c, TransTimeout)
               THEN WithTimeout(TransTimeout) ELSE NoCtxt
    /\ txCtx' = BeginContext(Derive(c, TransTimeout))
    /\ txState' = IF beginOK /\ ~(IF txCtx' = "derived"
                                   THEN ctxt'.done ELSE c.done)
                  THEN "open" ELSE "none"
    /\ commits' = 0
    /\ rollbacks' = 0
    /\ fResult' = NoResult
    /\ ret' = NoError
    /\ propagated' = FALSE
    /\ elapsed' = 0
    /\ pc' = "running"
    /\ UNCHANGED <<TransTimeout, logvars>>

\* lines 117-119: Transaction(f) = TransactionCtx(context.Background(), f)
Transaction ==
    \E beginOK \in BOOLEAN : Enter("Transaction", Background, beginOK)

\* line 122: TransactionCtx(ctx, f) with a caller's context
TransactionCtx ==
    \E c \in {Background} \cup {WithDeadline(d) : d \in 0..MaxDeadline} :
        \E beginOK \in BOOLEAN : Enter("TransactionCtx", c, beginOK)

\* time passes while f runs: deadlines and timeouts expire
Tick ==
    /\ pc = "running"
    /\ elapsed < MaxElapsed
    /\ elapsed' = elapsed + 1
    /\ ctx' = ExpireCtx(ctx, elapsed + 1)
    /\ ctxt' = ExpireCtxt(ctxt, elapsed + 1)
    /\ UNCHANGED <<TransTimeout, pc, api, txCtx, txState, commits,
                   rollbacks, fResult, ret, propagated, logvars>>

\* database/sql rolls an open transaction back once the context it was
\* begun under is done (asynchronously to the call)
DriverAbort ==
    /\ txState = "open"
    /\ TxCtxDone
    /\ txState' = "rolledback"
    /\ UNCHANGED <<TransTimeout, pc, api, ctx, ctxt, txCtx, commits,
                   rollbacks, fResult, ret, propagated, elapsed, logvars>>

\* the rest of the call once f is over: r is the outcome of f, p what
\* lines 140-147 and the deferred recover make of it; the deferred cancel
\* runs last
Finish(r, p) ==
    /\ pc = "running"
    /\ fResult' = r
    /\ txState' = p.txState
    /\ commits' = p.commits
    /\ rollbacks' = p.rollbacks
    /\ ret' = p.ret
    /\ propagated' = p.propagated
    /\ ctxt' = Cancel(ctxt)
    /\ pc' = "done"
    /\ UNCHANGED <<TransTimeout, api, ctx, txCtx, elapsed, logvars>>

\* line 140 then 141-144: f returns a non-nil error
UnitOfWorkFails ==
    \E e \in UowErrors : \E rbOK \in BOOLEAN :
        Finish([kind |-> "err", val |-> e], ErrorPath(e, rbOK))

\* line 140 then 146-147: f returns nil
UnitOfWorkSucceeds ==
    \E ok \in BOOLEAN :
        Finish([kind |-> "nil", val |-> ""], CommitPath(ok))

\* line 140 panics, then the defers of lines 132-138 and 126
UnitOfWorkPanics ==
    \E v \in PanicValues : \E panicnil \in BOOLEAN :
        Finish([kind |-> "panic", val |-> v], RecoverPath(v, panicnil))

NextTx ==
    \/ Transaction
    \/ TransactionCtx
    \/ Tick
    \/ DriverAbort
    \/ UnitOfWorkFails
    \/ UnitOfWorkSucceeds
    \/ UnitOfWorkPanics

(* ========================= package log: New, Init ===================== *)

\* a path is the sequence strings.Split(path, "/") yields: "" is <<"">>,
\* an absolute path starts with an empty segment
Paths == {<<"">>, <<"app.log">>, <<"logs", "app.log">>,
          <<"", "var", "app.log">>}

\* lines 167-185: the fields of Config that New branches on; the ones no
\* failing step depends on are tried with one value
Configs == [Path : Paths, MaxSize : {0, 10}, RotateDay : {0, 1},
            DisableStdout : {FALSE}, Kafka : BOOLEAN, WebHook : {1}]

\* &Config{}
ZeroConfig == [Path |-> <<"">>, MaxSize |-> 0, RotateDay |-> 0,
               DisableStdout |-> FALSE, Kafka |-> FALSE, WebHook |-> 0]

\* the steps of New that can fail
Steps == {"mkdir", "abs", "rotate", "kafka"}

\* what the file system and the sinks do during one call of New: whether
\* the directory is missing, and which steps fail if they are run
Envs == [missing : BOOLEAN, fail : SUBSET Steps]

NilLogger == [nil |-> TRUE, hooks |-> <<>>, cores |-> <<>>,
              config |-> ZeroConfig]

\* lines 215-217: zap.NewDevelopment() with an empty Config
DevLogger == [nil |-> FALSE, hooks |-> <<"stderr">>,
              cores |-> <<"development">>, config |-> ZeroConfig]

\* lines 232-234: Sugar
Sugar(l) == [base |-> l]

\* lines 383-389: getDir, on the segments of the path
getDir(path) == SubSeq(path, 1, Len(path) - 1)

\* the directory getDir yields is the empty string
DirIsEmptyString(path) == getDir(path) \in {<<>>, <<"">>}

\* filepath.IsAbs
IsAbs(path) == Len(path) > 1 /\ path[1] = ""

\* lines 374-381 with os.Stat: the empty directory name never exists
isPathNotExist(path, env) == DirIsEmptyString(path) \/ env.missing

\* os.MkdirAll fails on the empty directory name, or when the file system
\* refuses
MkdirAllFails(path, env) == DirIsEmptyString(path) \/ "mkdir" \in env.fail

\* n copies of x
RECURSIVE Repeat(_, _)
Repeat(x, n) == IF n = 0 THEN <<>> ELSE <<x>> \o Repeat(x, n - 1)

\* lines 240-361: New.  The result names the logger, the error, and the
\* steps that failed during the call.
New(config, env) ==
    LET pathSet      == config.Path # <<"">>
        mkdirTried   == pathSet /\ isPathNotExist(config.Path, env)
        mkdirFailed  == mkdirTried /\ MkdirAllFails(config.Path, env)
        rotating     == pathSet /\ ~mkdirFailed /\ config.RotateDay # 0
        absTried     == rotating /\ ~IsAbs(config.Path)
        absFailed    == absTried /\ "abs" \in env.fail
        rotateTried  == rotating /\ ~absFailed
        rotateFailed == rotateTried /\ "rotate" \in env.fail
        kafkaTried   == ~mkdirFailed /\ ~absFailed /\ config.Kafka
        kafkaFailed  == kafkaTried /\ "kafka" \in env.fail
        hooks ==
            (IF pathSet /\ config.MaxSize # 0
             THEN <<"lumberjack">> ELSE <<>>)
            \o (IF rotateTried
                THEN (IF rotateFailed THEN <<"nil rotatelogs">>
                      ELSE <<"rotatelogs">>)
                ELSE <<>>)
            \o (IF config.DisableStdout = FALSE
                THEN <<"stdout">> ELSE <<>>)
        cores ==
            <<"primary">> \o Repeat("webhook", config.WebHook)
            \o (IF config.Kafka THEN <<"kafka">> ELSE <<>>)
        failed ==
            (IF mkdirFailed THEN {"mkdir"} ELSE {})
            \cup (IF absFailed THEN {"abs"} ELSE {})
            \cup (IF rotateFailed THEN {"rotate"} ELSE {})
            \cup (IF kafkaFailed THEN {"kafka"} ELSE {})
        tried ==
            (IF mkdirTried THEN {"mkdir"} ELSE {})
            \cup (IF absTried THEN {"abs"} ELSE {})
            \cup (IF rotateTried THEN {"rotate"} ELSE {})
            \cup (IF kafkaTried THEN {"kafka"} ELSE {})
    IN  IF mkdirFailed
        THEN [logger |-> NilLogger, err |-> "mkdir", failed |-> failed,
              tried |-> tried]
        ELSE IF absFailed
        THEN [logger |-> NilLogger, err |-> "abs", failed |-> failed,
              tried |-> tried]
        ELSE IF kafkaFailed
        THEN [logger |-> NilLogger, err |-> "kafka", failed |-> failed,
              tried |-> tried]
        ELSE [logger |-> [nil |-> FALSE, hooks |-> hooks, cores |-> cores,
                          config |-> config],
              err |-> "", failed |-> failed, tried |-> tried]

\* lines 364-372: Init.  The environment only names failures of steps the
\* call runs.
LogInit ==
    \E config \in Configs : \E env \in Envs :
        LET r == New(config, env) IN
        /\ env.fail \subseteq r.tried
        /\ lastNew' = [config |-> config, result |-> r]
        /\ logger' = r.logger
        /\ sugger' = IF r.err # "" THEN sugger ELSE Sugar(r.logger)
        /\ initErr' = r.err
        /\ UNCHANGED <<TransTimeout, txvars>>

NextLog == LogInit

(* ------------------------------ start --------------------------------- *)
\* after Open(cfg) and after package log's init()
Init ==
    /\ TransTimeout \in Timeouts
    /\ pc = "idle"
    /\ api = "none"
    /\ ctx = Background
    /\ ctxt = NoCtxt
    /\ txCtx = "none"
    /\ txState = "none"
    /\ commits = 0
    /\ rollbacks = 0
    /\ fResult = NoResult
    /\ ret = NoError
    /\ propagated = FALSE
    /\ elapsed = 0
    /\ logger = DevLogger
    /\ sugger = Sugar(DevLogger)
    /\ lastNew = [config |-> ZeroConfig,
                  result |-> [logger |-> DevLogger, err |-> "",
                              failed |-> {}, tried |-> {}]]
    /\ initErr = ""

\* the transaction helper alone
Spec == Init /\ [][NextTx]_vars

\* the logger alone, beside an idle database handle
InitLog == Init /\ TransTimeout = 0
SpecLog == InitLog /\ [][NextLog]_vars

(* ============================== claims ================================ *)

\* C1: when the unit of work returns nil, Commit is issued exactly once on
\* the transaction and Rollback never; nothing is issued while the unit of
\* work runs; Commit is never issued when it returned a non-nil error.
C1_CommitIffSuccess ==
    /\ (pc = "running" => commits = 0 /\ rollbacks = 0)
    /\ (pc = "done" /\ fResult.kind = "nil"
            => commits = 1 /\ rollbacks = 0)
    /\ (pc = "done" /\ fResult.kind = "err" => commits = 0)

\* C1 witness: a call of Transaction whose unit
\* of work returned nil and whose commit was issued
C1_Witness ==
    /\ pc = "done" /\ fResult.kind = "nil" /\ commits = 1
    /\ api = "Transaction" /\ txState = "committed"

\* C2: when the unit of work returns the error e, Rollback is issued
\* exactly once, Commit never, and the call returns exactly e.
C2_RollbackAndSameError ==
    pc = "done" /\ fResult.kind = "err"
        => /\ rollbacks = 1
           /\ commits = 0
           /\ ret = UowError(fResult.val)

\* C2 witness: a call whose unit of work returned e2, rolled back
C2_Witness ==
    /\ pc = "done" /\ fResult = [kind |-> "err", val |-> "e2"]
    /\ rollbacks = 1 /\ txState = "rolledback" /\ ret = UowError("e2")

\* the returned error carries the panic value v
Carries(r, v) ==
    r.val = v \/ (v = NilValue /\ r.val = "PanicNilError")

\* C3: when the unit of work panics with v, the call returns a non-nil
\* error carrying v and a stack trace, and the panic does not propagate.
C3_PanicBecomesError ==
    pc = "done" /\ fResult.kind = "panic"
        => /\ ~propagated
           /\ ret # NoError
           /\ ret.kind = "panic"
           /\ ret.stack
           /\ Carries(ret, fResult.val)

\* C4: a transaction the call created is, when the call has returned,
\* committed or rolled back, whatever the outcome of the unit of work.
C4_TerminalOnReturn ==
    pc = "done" => txState \in {"none", "committed", "rolledback"}

\* C5: the transaction is begun under a context derived with TransTimeout
\* exactly when the caller's context has no deadline and TransTimeout is
\* non-zero; otherwise under the caller's context, and nothing is derived.
C5_DeriveIffNoDeadline ==
    pc # "idle"
        => /\ txCtx = "derived" <=> (~ctx.hasDeadline /\ TransTimeout # 0)
           /\ txCtx = "derived"
                => ctxt.exists /\ ctxt.timeout = TransTimeout
           /\ txCtx # "derived" => txCtx = "caller" /\ ~ctxt.exists

\* C5 witness: a timeout is configured, the caller's context has a
\* deadline, and the transaction runs under the caller's context
C5_Witness ==
    /\ pc = "running" /\ TransTimeout # 0 /\ ctx.hasDeadline
    /\ txCtx = "caller" /\ txState = "open"

\* C6: with no caller deadline and a configured timeout, once the timeout
\* has elapsed while the unit of work runs, the transaction's context is
\* done and a commit issued afterwards does not succeed; the caller's
\* context is neither cancelled nor given a deadline.
C6_TimeoutBoundsTransaction ==
    ~ctx.hasDeadline /\ TransTimeout # 0 /\ pc # "idle"
        => /\ ctx = Background
           /\ (elapsed >= TransTimeout => txCtx = "derived" /\ TxCtxDone)
           /\ (pc = "done" /\ elapsed >= TransTimeout
                 /\ fResult.kind = "nil"
                    => txState # "committed" /\ ret # NoError)

\* C6 witness: the unit of work outlived a positive timeout, returned nil,
\* and the commit failed on the cancelled context
C6_Witness ==
    /\ pc = "done" /\ ~ctx.hasDeadline /\ TransTimeout > 0
    /\ elapsed >= TransTimeout /\ fResult.kind = "nil"
    /\ ret = CommitError("context done")

\* C7: when the unit of work returns nil, the call returns the error of
\* the commit: nil exactly when the transaction is committed, the commit's
\* error otherwise, with one commit and no rollback issued.
C7_ReturnsCommitError ==
    pc = "done" /\ fResult.kind = "nil"
        => /\ ret = NoError <=> txState = "committed"
           /\ ret.kind \in {"nil", "commit"}
           /\ commits = 1
           /\ rollbacks = 0

\* C7 witness: the driver's commit failed and its error is returned
C7_Witness ==
    /\ pc = "done" /\ fResult.kind = "nil"
    /\ ret = CommitError("driver") /\ rollbacks = 0

\* C8: whenever a step of New fails, New returns a non-nil error and a
\* nil logger, and no logger holds a sink whose construction failed.
C8_FailureAbortsNew ==
    /\ lastNew.result.failed # {}
         => lastNew.result.err # "" /\ lastNew.result.logger = NilLogger
    /\ \A i \in 1..Len(lastNew.result.logger.hooks) :
         lastNew.result.logger.hooks[i] # "nil rotatelogs"

\* C9: in the step in which the unit of work panics, the call issues
\* neither Commit nor Rollback and leaves the transaction as it was; it
\* only sets the returned error and cancels the derived context, if any.
C9_PanicPathIssuesNothing ==
    [][pc = "running" /\ fResult'.kind = "panic"
         => /\ commits' = 0 /\ rollbacks' = 0
            /\ txState' = txState
            /\ txCtx' = txCtx
            /\ ctx' = ctx
            /\ ctxt' = Cancel(ctxt)
            /\ ret'.kind \in {"nil", "panic"}]_vars

\* C9 witness: a panic under a derived context left an open transaction
\* with nothing issued and the derived context cancelled
C9_Witness ==
    /\ pc = "done" /\ fResult.kind = "panic" /\ txCtx = "derived"
    /\ txState = "open" /\ ctxt.done /\ commits = 0 /\ rollbacks = 0

\* C10: after any sequence of Init calls the process-wide logger is
\* non-nil and the sugared logger is the one derived from it.
C10_LoggerUsableAfterInit ==
    /\ logger # NilLogger
    /\ sugger = Sugar(logger)
====
